---- MODULE Spec2Model ----
(***************************************************************************)
(* State-machine model of the layout engines of ZHONG-heart/layout:        *)
(*   - ForceLayout  (d3-force delegation, src/unnamed/part_000)            *)
(*   - GForceLayout (custom physics engine, src/src/layout/gForce.ts)      *)
(* Each engine has its own specification (SpecF, SpecG); the variables of  *)
(* the other engine stay at their initial values.                          *)
(***************************************************************************)
EXTENDS Integers, Sequences, FiniteSets, TLC

VARIABLES
  \* ---- ForceLayout instance ----
  ticking,          \* private ticking flag (undefined is modelled as FALSE: only truthiness is read)
  forceSimulation,  \* 0 = null, otherwise the id of the referenced d3 simulation
  fnodes,           \* bound node array: "null" or the id of a graph payload
  fedges,           \* bound edge array: "null" or the id of a graph payload
  fdestroyed,       \* Base.destroyed
  workerEnabled,    \* option workerEnabled
  preventOverlapF,  \* option preventOverlap
  inWorker,         \* environment: result of isInWorker()
  sims,             \* every d3 simulation created so far (sequence, id = index)
  posted,           \* messages the last execute() handed to postMessage
  fhist,            \* the last operation on the instance and what it saw on entry
  \* ---- GForceLayout instance ----
  gnodes,           \* the node array bound to the instance (kept by the timer closure)
  gedges,           \* the edge array: pairs of node indices
  nodesNull,        \* self.nodes holds no node array (null, or rebound to data without nodes)
  edgesNull,        \* self.edges === null
  gdestroyed,       \* Base.destroyed
  gtick,            \* self.tick is a function (destroy sets it to null)
  gcfg,             \* options of the instance
  nodeSize,         \* what self.nodeSize holds: "undefined", "resolved", "broken"
  timeInterval,     \* self.timeInterval: 0 = undefined, otherwise a timer id
  timers,           \* interval timers created so far: active flag and the closure's iter
  endCalls,         \* onLayoutEnd invocations since the last execute() began
  execCount,        \* number of execute() calls so far
  ghist,            \* the last operation on the instance and what it saw on entry
  \* ---- CircularLayout instance ----
  cnodes,           \* self.nodes: the bound node array
  cedges,           \* self.edges: pairs of node indices (source, target)
  ccfg,             \* options of the instance
  ccenter,          \* self.center: <<>> while not set, otherwise <<cx, cy>>
  chist             \* the last execute(): its order, angles, radii and onLayoutEnd calls

fvars == <<ticking, forceSimulation, fnodes, fedges, fdestroyed, workerEnabled,
           preventOverlapF, inWorker, sims, posted, fhist>>

gvars == <<gnodes, gedges, nodesNull, edgesNull, gdestroyed, gtick, gcfg, nodeSize,
           timeInterval, timers, endCalls, execCount, ghist>>

cvars == <<cnodes, cedges, ccfg, ccenter, chist>>

vars == <<fvars, gvars, cvars>>

\* ---------------------------------------------------------------------------
\* Bounds of the model
\* ---------------------------------------------------------------------------
\* number of d3 simulations one behaviour may create
MaxSims == 2
\* ticks a d3 simulation needs from alpha(alpha) down to alphaMin
TotalTicks == 2
\* nodes of a graph payload
MaxNodes == 3
\* largest maxIteration option
MaxIteration == 3
\* execute() calls on the GForceLayout instance
MaxExec == 2

Graphs == {"g1", "g2"}

\* ===========================================================================
\* ForceLayout
\* ===========================================================================

ActiveSims == {s \in 1..Len(sims) : sims[s].active}

\* a stopped simulation that the instance does not reference cannot be reached
\* or restarted by anything: it is garbage, and its record is cleared
Collected(ss, ref) ==
  [s \in 1..Len(ss) |->
     IF s # ref /\ ~ss[s].active
       THEN [active |-> FALSE, alpha |-> 0, nodes |-> "null", forces |-> {},
             listeners |-> FALSE]
       ELSE ss[s]]

\* forces registered on a freshly built simulation (execute, lines 165-212)
BuildForces ==
  {"center", "charge"}
    \cup (IF preventOverlapF THEN {"collisionForce"} ELSE {})
    \cup (IF fedges # "null" THEN {"link"} ELSE {})

\* init(data): binds the payload and clears the flag; the simulation is not touched
InitF(data) ==
  /\ ~fdestroyed
  /\ fhist' = [op |-> "init", wasTicking |-> ticking, prevSim |-> forceSimulation,
               callback |-> FALSE, fault |-> "none"]
  /\ fnodes' = data
  /\ fedges' = data
  /\ ticking' = FALSE
  /\ UNCHANGED <<forceSimulation, fdestroyed, workerEnabled, preventOverlapF, inWorker, sims,
                 posted>>
  /\ UNCHANGED <<gvars, cvars>>

ExecuteIgnoredNoGuard == FALSE

\* the guard of execute (line 149)
ExecuteIgnored == ticking

\* points of execute at which building the simulation may throw: nowhere;
\* while the charge force is built (lines 159-162, no simulation exists yet);
\* while the link force is registered (lines 200-211, the simulation of line
\* 163 exists and d3 has started its timer)
Faults == {"none", "charge", "link"}

\* the tick messages of the worker branch (lines 233-246)
TickMessages(totalTicks) ==
  [currentTick \in 1..totalTicks |->
     [type |-> "tick", currentTick |-> currentTick, totalTicks |-> totalTicks]]

\* execute(reloadData); fault is the point at which the build throws
ExecuteF(reloadData, fault) ==
  /\ ~fdestroyed
  /\ fnodes # "null"
  /\ fhist' = [op |-> "execute", wasTicking |-> ticking, prevSim |-> forceSimulation,
               callback |-> FALSE, fault |-> fault]
  /\ IF ExecuteIgnored
       THEN /\ fault = "none"
            /\ posted' = <<>>
            /\ UNCHANGED <<ticking, forceSimulation, sims, workerEnabled>>
       ELSE IF forceSimulation = 0
         THEN /\ Len(sims) < MaxSims
              /\ LET we == workerEnabled /\ inWorker      \* lines 213-219
                     sim == IF ~we
                              THEN [active |-> TRUE, alpha |-> TotalTicks, nodes |-> fnodes,
                                    forces |-> BuildForces, listeners |-> TRUE]
                              ELSE [active |-> FALSE, alpha |-> 0, nodes |-> fnodes,
                                    forces |-> BuildForces, listeners |-> FALSE]
                     \* the simulation as line 163 and 187-196 leave it
                     half == [active |-> TRUE, alpha |-> TotalTicks, nodes |-> fnodes,
                              forces |-> BuildForces \ {"link"}, listeners |-> FALSE]
                 IN IF fault = "none"
                      THEN /\ workerEnabled' = we
                           /\ sims' = Append(sims, sim)
                           /\ forceSimulation' = Len(sims) + 1   \* line 250
                           /\ ticking' = TRUE                     \* lines 229 / 247, then 251
                           /\ posted' = IF we THEN TickMessages(TotalTicks) ELSE <<>>
                      ELSE \* catch (lines 252-255)
                           /\ sims' = IF fault = "link" THEN Append(sims, half) ELSE sims
                           /\ ticking' = FALSE
                           /\ posted' = <<>>
                           /\ UNCHANGED <<forceSimulation, workerEnabled>>
         ELSE /\ fault = "none"
              /\ LET s == forceSimulation
                     old == sims[s]
                     upd == [old EXCEPT
                               !.nodes = IF reloadData THEN fnodes ELSE @,
                               !.forces = @ \cup (IF reloadData /\ fedges # "null"
                                                    THEN {"link"} ELSE {})
                                            \cup (IF preventOverlapF
                                                    THEN {"collisionForce"} ELSE {}),
                               !.alpha = TotalTicks,      \* simulation.alpha(alpha)
                               !.active = TRUE]           \* .restart()
                 IN sims' = [sims EXCEPT ![s] = upd]
              /\ ticking' = TRUE                           \* line 284
              /\ posted' = <<>>
              /\ UNCHANGED <<forceSimulation, workerEnabled>>
  /\ UNCHANGED <<fnodes, fedges, fdestroyed, preventOverlapF, inWorker>>
  /\ UNCHANGED <<gvars, cvars>>

\* updateCfg(cfg)
UpdateCfgF(cfg) ==
  /\ ~fdestroyed
  /\ fhist' = [op |-> "updateCfg", wasTicking |-> ticking, prevSim |-> forceSimulation,
               callback |-> FALSE, fault |-> "none"]
  /\ IF ticking
       THEN /\ sims' = Collected([sims EXCEPT ![forceSimulation].active = FALSE], 0)
            /\ ticking' = FALSE
       ELSE /\ sims' = Collected(sims, 0)
            /\ UNCHANGED ticking
  /\ forceSimulation' = 0
  /\ workerEnabled' = cfg.workerEnabled
  /\ preventOverlapF' = cfg.preventOverlap
  /\ UNCHANGED <<fnodes, fedges, fdestroyed, inWorker, posted>>
  /\ UNCHANGED <<gvars, cvars>>

\* destroy()
DestroyF ==
  /\ ~fdestroyed
  /\ fhist' = [op |-> "destroy", wasTicking |-> ticking, prevSim |-> forceSimulation,
               callback |-> FALSE, fault |-> "none"]
  /\ IF ticking
       THEN /\ sims' = [sims EXCEPT ![forceSimulation].active = FALSE]
            /\ ticking' = FALSE
       ELSE UNCHANGED <<sims, ticking>>
  /\ fnodes' = "null"
  /\ fedges' = "null"
  /\ fdestroyed' = TRUE
  /\ UNCHANGED <<forceSimulation, workerEnabled, preventOverlapF, inWorker, posted>>
  /\ UNCHANGED <<gvars, cvars>>

\* one timer step of d3 simulation s: tick event, then the end event once alpha
\* has decayed below alphaMin (handlers registered at lines 221-228)
SimTick(s) ==
  /\ s \in ActiveSims
  /\ fhist' = [op |-> "tick", wasTicking |-> ticking, prevSim |-> forceSimulation,
               callback |-> sims[s].listeners, fault |-> "none"]
  /\ LET a == sims[s].alpha - 1
         ended == a <= 0
     IN /\ sims' = Collected([sims EXCEPT ![s].alpha = a, ![s].active = ~ended],
                              forceSimulation)
        /\ ticking' = IF ended /\ sims[s].listeners THEN FALSE ELSE ticking
  /\ UNCHANGED <<forceSimulation, fnodes, fedges, fdestroyed, workerEnabled,
                 preventOverlapF, inWorker, posted>>
  /\ UNCHANGED <<gvars, cvars>>

\* option sets handed to updateCfg: each option set on its own, or neither
Cfgs ==
  {c \in [workerEnabled : BOOLEAN, preventOverlap : BOOLEAN] :
     ~(c.workerEnabled /\ c.preventOverlap)}

\* the ForceLayout instance after construction without options
NewF ==
  /\ ticking = FALSE
  /\ forceSimulation = 0
  /\ fnodes = "null"
  /\ fedges = "null"
  /\ fdestroyed = FALSE
  /\ workerEnabled = FALSE
  /\ preventOverlapF = FALSE
  /\ inWorker \in BOOLEAN
  /\ sims = <<>>
  /\ posted = <<>>
  /\ fhist = [op |-> "new", wasTicking |-> FALSE, prevSim |-> 0,
              callback |-> FALSE, fault |-> "none"]

\* the GForceLayout instance after construction, no graph bound
IdleG ==
  /\ gnodes = <<>>
  /\ gedges = <<>>
  /\ nodesNull = FALSE
  /\ edgesNull = FALSE
  /\ gdestroyed = FALSE
  /\ gtick = TRUE
  /\ gcfg = [maxIteration |-> 1, preventOverlap |-> TRUE, nodeStrength |-> 0,
             coulombDisScale |-> 100, interval |-> 1000, maxSpeed |-> 200, gravity |-> 0]
  /\ nodeSize = "undefined"
  /\ timeInterval = 0
  /\ timers = <<>>
  /\ endCalls = 0
  /\ execCount = 0
  /\ ghist = [op |-> "new", midRun |-> FALSE, prevTimer |-> 0, prevIter |-> 0, moved |-> 0, events |-> <<>>]

\* a number option that is null / not given
Null == -1

\* angles are counted in steps of 3 degrees: 2 * Math.PI is 120 steps
Turn == 120

\* CircularLayout.getDefaultCfg and the field initialisers (lines 97-136)
DefaultCfgC ==
  [radius |-> Null, startRadius |-> Null, endRadius |-> Null,
   startAngle |-> 0, endAngle |-> Turn, clockwise |-> TRUE, divisions |-> 1,
   ordering |-> "null", angleRatio |-> 1]

\* the CircularLayout instance after construction without options
IdleC ==
  /\ cnodes = <<>>
  /\ cedges = <<>>
  /\ ccfg = DefaultCfgC
  /\ ccenter = <<>>
  /\ chist = [op |-> "new", endCalls |-> 0, order |-> <<>>, angles |-> <<>>,
              radii |-> <<>>, degrees |-> <<>>]

InitStateF == NewF /\ IdleG /\ IdleC

NextF ==
  \/ \E data \in Graphs : InitF(data)
  \/ \E reloadData \in BOOLEAN, fault \in Faults : ExecuteF(reloadData, fault)
  \/ \E cfg \in Cfgs : UpdateCfgF(cfg)
  \/ DestroyF
  \/ \E s \in 1..MaxSims : SimTick(s)

SpecF == InitStateF /\ [][NextF]_vars

\* ===========================================================================
\* GForceLayout
\* ===========================================================================
\* Numbers are fixed-point: lengths, positions, velocities, accelerations and
\* strengths are integers in units of 0.01 (Unit), step sizes in units of 0.001.

\* 1.00 in fixed-point; the smallest literal of the engine, 0.01, is 1
Unit == 100
\* damping = 0.9
damping == 90
\* minMovement = 0.5
minMovement == 50
\* factor = 1
factor == 1
\* edgeStrength = 200
edgeStrength == 200
\* linkDistance = 1
linkDistance == 100
\* width = height = 300
width == 30000
height == 30000

Abs(a) == IF a < 0 THEN -a ELSE a

\* JS number division, truncated towards zero in the fixed-point
Div(a, b) == IF (a < 0) # (b < 0) THEN -(Abs(a) \div Abs(b)) ELSE Abs(a) \div Abs(b)

\* product of two fixed-point numbers
Mul(a, b) == Div(a * b, Unit)

RECURSIVE SqrtBetween(_, _, _)
SqrtBetween(n, lo, hi) ==
  IF lo >= hi THEN lo
  ELSE LET mid == (lo + hi + 1) \div 2
       IN IF mid * mid <= n THEN SqrtBetween(n, mid, hi) ELSE SqrtBetween(n, lo, mid - 1)

\* Math.sqrt on an integer
ISqrt(n) == SqrtBetween(n, 0, IF n < 46340 THEN n ELSE 46340)

\* Math.sqrt(a * a + b * b) for fixed-point a, b (large operands are squared
\* at the resolution of whole units, to stay within 32 bits)
Hypot(a, b) ==
  IF Abs(a) <= 30000 /\ Abs(b) <= 30000
    THEN ISqrt(a * a + b * b)
    ELSE Unit * ISqrt(Div(a, Unit) * Div(a, Unit) + Div(b, Unit) * Div(b, Unit))

RECURSIVE SumSeq(_)
SumSeq(s) == IF s = <<>> THEN 0 ELSE Head(s) + SumSeq(Tail(s))

\* center defaults to [width / 2, height / 2] (execute, lines 162-164)
center == <<Div(width, 2), Div(height, 2)>>

\* proccessToFunc(value, defaultV): an unset (falsy) value yields defaultV, which
\* every caller passes as 1 (in the fixed-point of the option)
proccessToFunc(value, defaultV) ==
  IF value = 0 THEN defaultV ELSE value

\* util.getDegree: number of edge ends at each node
getDegree(n, edges) ==
  [i \in 1..n |->
     Cardinality({k \in 1..Len(edges) : edges[k][1] = i})
       + Cardinality({k \in 1..Len(edges) : edges[k][2] = i})]

\* the default getMass installed by execute (lines 225-230): degree || 1
getMass(nodes, edges, i) ==
  LET d == getDegree(Len(nodes), edges)[i] IN IF d = 0 THEN 1 ELSE d

\* value of the function execute stores in self.nodeSize (lines 189-221):
\* -1 stands for a value that is not a number (a function plus a number is a
\* string, and the halved sum of two such strings in line 319 is NaN)
nodeSizeFunc(sizeState, d) ==
  IF sizeState = "resolved"
    THEN (IF d.size # 0 THEN d.size ELSE 10 * Unit) + 0
    ELSE -1

\* the overlap test of calRepulsive (line 319); a comparison with NaN is false
Overlapping(cfg, sizeState, ni, nj, vecLength) ==
  /\ cfg.preventOverlap
  /\ nodeSizeFunc(sizeState, ni) >= 0
  /\ nodeSizeFunc(sizeState, nj) >= 0
  /\ 2 * vecLength < nodeSizeFunc(sizeState, ni) + nodeSizeFunc(sizeState, nj)

\* what one pass of the inner loop of calRepulsive adds to the accumulators of
\* i (ix, iy) and of j (jx, jy), for i < j (lines 303-326)
PairRepulsive(cfg, sizeState, nodes, edges, i, j) ==
  LET ni == nodes[i]
      nj == nodes[j]
      massi == getMass(nodes, edges, i)
      massj == getMass(nodes, edges, j)
      nodeStrength == proccessToFunc(cfg.nodeStrength, Unit)
      vecX == ni.x - nj.x
      vecY == ni.y - nj.y
      vecLength == Hypot(vecX, vecY) + 1
      nVecLength == Mul(vecLength + 10, cfg.coulombDisScale)
      direX == Div(vecX * Unit, vecLength)
      direY == Div(vecY * Unit, vecLength)
      param == Div(Div(nodeStrength + nodeStrength, 2) * factor * Unit * Unit,
                   nVecLength * nVecLength)
      paramOverlap == Div(Div(nodeStrength + nodeStrength, 2) * Unit * Unit,
                          vecLength * vecLength)
      ov == Overlapping(cfg, sizeState, ni, nj, vecLength)
  IN [ix |-> Mul(direX, param) + (IF ov THEN Div(Mul(direX, paramOverlap), massi) ELSE 0),
      iy |-> Mul(direY, param) + (IF ov THEN Div(Mul(direY, paramOverlap), massi) ELSE 0),
      jx |-> -Mul(direX, param) - (IF ov THEN Div(Mul(direX, paramOverlap), massj) ELSE 0),
      jy |-> -Mul(direY, param) - (IF ov THEN Div(Mul(direY, paramOverlap), massj) ELSE 0)]

\* what the pair of k and j adds to the accumulator of k
RepulsiveOn(cfg, sizeState, nodes, edges, k, j) ==
  IF k < j
    THEN LET p == PairRepulsive(cfg, sizeState, nodes, edges, k, j) IN <<p.ix, p.iy>>
  ELSE IF j < k
    THEN LET p == PairRepulsive(cfg, sizeState, nodes, edges, j, k) IN <<p.jx, p.jy>>
  ELSE <<0, 0>>

\* calRepulsive: the accumulators (zeroed at lines 250-255) after all pairs
\* i < j have been visited
calRepulsive(cfg, sizeState, nodes, edges) ==
  [k \in 1..Len(nodes) |->
     <<SumSeq([j \in 1..Len(nodes) |-> RepulsiveOn(cfg, sizeState, nodes, edges, k, j)[1]]),
       SumSeq([j \in 1..Len(nodes) |-> RepulsiveOn(cfg, sizeState, nodes, edges, k, j)[2]])>>]

\* what calAttractive adds to node k for edge e (lines 339-358)
EdgeAttractive(nodes, edges, e, k) ==
  LET sourceIdx == edges[e][1]
      targetIdx == edges[e][2]
      vecX == nodes[targetIdx].x - nodes[sourceIdx].x
      vecY == nodes[targetIdx].y - nodes[sourceIdx].y
      vecLength == Hypot(vecX, vecY) + 1
      direX == Div(vecX * Unit, vecLength)
      direY == Div(vecY * Unit, vecLength)
      length == IF proccessToFunc(linkDistance, Unit) = 0 THEN Unit
                ELSE proccessToFunc(linkDistance, Unit)
      diff == length - vecLength
      param == diff * proccessToFunc(edgeStrength, 1)
      massSource == getMass(nodes, edges, sourceIdx)
      massTarget == getMass(nodes, edges, targetIdx)
      sx == IF k = sourceIdx THEN -Div(Mul(direX, param), massSource) ELSE 0
      sy == IF k = sourceIdx THEN -Div(Mul(direY, param), massSource) ELSE 0
      tx == IF k = targetIdx THEN Div(Mul(direX, param), massTarget) ELSE 0
      ty == IF k = targetIdx THEN Div(Mul(direY, param), massTarget) ELSE 0
  IN <<sx + tx, sy + ty>>

calAttractive(accArray, nodes, edges) ==
  [k \in 1..Len(nodes) |->
     <<accArray[k][1] + SumSeq([e \in 1..Len(edges) |-> EdgeAttractive(nodes, edges, e, k)[1]]),
       accArray[k][2] + SumSeq([e \in 1..Len(edges) |-> EdgeAttractive(nodes, edges, e, k)[2]])>>]

\* calGravity without a getCenter hook (lines 361-392); a falsy gravity is skipped
calGravity(cfg, accArray, nodes) ==
  [k \in 1..Len(nodes) |->
     IF cfg.gravity = 0 THEN accArray[k]
     ELSE <<accArray[k][1] - Mul(cfg.gravity, nodes[k].x - center[1]),
            accArray[k][2] - Mul(cfg.gravity, nodes[k].y - center[2])>>]

\* Math.max(0.02, self.interval - iter * 0.002), in units of 0.001 (line 259)
StepInterval(cfg, iter) ==
  IF cfg.interval - iter * 2 > 20 THEN cfg.interval - iter * 2 ELSE 20

\* one velocity component: acc * param || 0.01 (lines 404-405); param is
\* stepInterval * damping in units of 0.001
VelocityComponent(acc, param) ==
  IF acc = 0 \/ param = 0 THEN 1 ELSE Div(acc * param, 1000)

\* updateVelocity (lines 394-415)
updateVelocity(cfg, accArray, stepInterval, nodes) ==
  LET param == Div(stepInterval * damping, Unit)
  IN [k \in 1..Len(nodes) |->
        LET vx == VelocityComponent(accArray[k][1], param)
            vy == VelocityComponent(accArray[k][2], param)
            vLength == Hypot(vx, vy)
        IN IF vLength > cfg.maxSpeed
             THEN <<Div(vx * cfg.maxSpeed, vLength), Div(vy * cfg.maxSpeed, vLength)>>
             ELSE <<vx, vy>>]

\* a node with both fx and fy set (line 423)
IsPinned(node) == node.pinned

\* updatePosition (lines 417-433)
updatePosition(velArray, stepInterval, nodes) ==
  [k \in 1..Len(nodes) |->
     IF IsPinned(nodes[k])
       THEN [nodes[k] EXCEPT !.x = nodes[k].fx, !.y = nodes[k].fy]
       ELSE [nodes[k] EXCEPT !.x = @ + Div(velArray[k][1] * stepInterval, 1000),
                             !.y = @ + Div(velArray[k][2] * stepInterval, 1000)]]

\* mean displacement between two position arrays (lines 272-278)
Movement(previousPos, nodes) ==
  Div(SumSeq([k \in 1..Len(nodes) |->
                Hypot(nodes[k].x - previousPos[k].x, nodes[k].y - previousPos[k].y)]),
      Len(nodes))

\* ---- inputs ---------------------------------------------------------------

\* node records of the payloads: position (hasPos = FALSE: x and y are not
\* numbers yet), pin (fx, fy), size (0 = no size field)
NodeInputs ==
  { [x |-> 15050, y |-> 15000, hasPos |-> TRUE, pinned |-> FALSE, fx |-> 0, fy |-> 0, size |-> 100],
    [x |-> 15200, y |-> 15200, hasPos |-> TRUE, pinned |-> TRUE, fx |-> 15200, fy |-> 15200, size |-> 100],
    [x |-> 0, y |-> 0, hasPos |-> FALSE, pinned |-> FALSE, fx |-> 0, fy |-> 0, size |-> 0] }

\* outcomes of Math.random() * width, Math.random() * height (lines 176-177)
RandomPos == {<<14900, 15300>>, <<15000, 15000>>}

\* position of a node record in the listing of NodeInputs above
TemplateRank(d) == IF d.pinned THEN 2 ELSE IF d.hasPos THEN 1 ELSE 3

\* payloads: every array of up to two nodes; longer arrays list their nodes
\* in template order
NodeArrays ==
  UNION {{a \in [1..n -> NodeInputs] :
            n <= 2 \/ \A k \in 1..(n - 1) : TemplateRank(a[k]) <= TemplateRank(a[k + 1])}
         : n \in 0..MaxNodes}

\* edge lists over n nodes: none, or a star around the first node
EdgeLists(n) ==
  {<<>>} \cup (IF n >= 2 THEN {[k \in 1..(n - 1) |-> <<1, k + 1>>]} ELSE {})

\* options of the instance, in fixed-point (nodeStrength 0 = not set)
GCfgs ==
  {c \in [maxIteration : {1, MaxIteration},
          preventOverlap : BOOLEAN,
          nodeStrength : {0, 200},
          coulombDisScale : {100},
          interval : {1000},
          maxSpeed : {200},
          gravity : {0, 10}] : (c.gravity = 0) <=> (c.nodeStrength = 0)}

\* ---- operations -----------------------------------------------------------

ActiveTimers == {t \in 1..Len(timers) : timers[t].active}

\* window.clearInterval(id)
clearInterval(ts, id) ==
  IF id \in 1..Len(ts) THEN [ts EXCEPT ![id].active = FALSE] ELSE ts

\* the value execute stores in self.nodeSize (lines 189-221)
ResolveNodeSize(cfg, sizeState) ==
  IF ~cfg.preventOverlap THEN "undefined"
  ELSE IF sizeState = "undefined" THEN "resolved"
  ELSE "broken"

\* x and y of nodes without a number are drawn at random (lines 175-180)
Unseeded(nodes) == {k \in 1..Len(nodes) : ~nodes[k].hasPos}

SeedPositions(nodes, rnd) ==
  [k \in 1..Len(nodes) |->
     IF nodes[k].hasPos THEN nodes[k]
     ELSE [nodes[k] EXCEPT !.x = rnd[k][1], !.y = rnd[k][2], !.hasPos = TRUE]]

ExecuteKeepsTimer(ts, id) == ts

\* execute cancels the timer of the previous run first (lines 147-149)
ExecuteClears(ts, id) == IF id # 0 THEN clearInterval(ts, id) ELSE ts

NoNodesNullOnly(isNull, nodes) == isNull

\* !nodes || nodes.length === 0 (line 151)
NoNodes(isNull, nodes) == isNull \/ Len(nodes) = 0

\* execute()
ExecuteG ==
  /\ ~gdestroyed
  /\ execCount < MaxExec
  /\ execCount' = execCount + 1
  /\ ghist' = [op |-> "execute",
               midRun |-> timeInterval \in ActiveTimers,
               prevTimer |-> timeInterval,
               prevIter |-> IF timeInterval = 0 THEN 0 ELSE timers[timeInterval].iter,
               moved |-> 0,
               events |-> IF NoNodes(nodesNull, gnodes) THEN <<"end">>
                          ELSE IF Len(gnodes) = 1 THEN <<"position", "end">>
                          ELSE <<>>]
  /\ LET cleared == ExecuteClears(timers, timeInterval)
     IN IF NoNodes(nodesNull, gnodes)
          THEN /\ endCalls' = 1
               /\ timers' = cleared
               /\ UNCHANGED <<gnodes, nodeSize, timeInterval>>
          ELSE IF Len(gnodes) = 1
            THEN /\ gnodes' = [gnodes EXCEPT ![1].x = center[1], ![1].y = center[2]]
                 /\ endCalls' = 1
                 /\ timers' = cleared
                 /\ UNCHANGED <<nodeSize, timeInterval>>
            ELSE /\ \E rnd \in [Unseeded(gnodes) -> RandomPos] :
                      gnodes' = SeedPositions(gnodes, rnd)
                 /\ nodeSize' = ResolveNodeSize(gcfg, nodeSize)
                 /\ endCalls' = 0
                 \* run(): a new interval timer whose closure starts at iter = 0
                 /\ timers' = Append(cleared, [active |-> TRUE, iter |-> 0])
                 /\ timeInterval' = Len(timers) + 1
  /\ UNCHANGED <<gedges, nodesNull, edgesNull, gdestroyed, gtick, gcfg>>
  /\ UNCHANGED <<fvars, cvars>>

\* what one step does that the caller can observe, in program order: the
\* positions are written (line 268), tick is called if set (line 269), the
\* convergence test (lines 279-282) and the iteration cap (lines 284-287)
StepEventsTickLast(cfg, tickSet, movement, iter) ==
  <<"position">>
    \o (IF movement < minMovement THEN <<"clear", "end">> ELSE <<>>)
    \o (IF iter + 1 >= cfg.maxIteration THEN <<"end", "clear">> ELSE <<>>)
    \o (IF tickSet THEN <<"tick">> ELSE <<>>)

StepEvents(cfg, tickSet, movement, iter) ==
  <<"position">>
    \o (IF tickSet THEN <<"tick">> ELSE <<>>)
    \o (IF movement < minMovement THEN <<"clear", "end">> ELSE <<>>)
    \o (IF iter + 1 >= cfg.maxIteration THEN <<"end", "clear">> ELSE <<>>)

\* onLayoutEnd invocations of one step (lines 279-287)
StepEndCalls(cfg, movement, iter) ==
  (IF movement < minMovement THEN 1 ELSE 0) + (IF iter + 1 >= cfg.maxIteration THEN 1 ELSE 0)

StepStopsOnConvergenceOnly(cfg, movement, iter) == movement < minMovement

\* whether the step cancels the timer (lines 280, 286)
StepStops(cfg, movement, iter) ==
  movement < minMovement \/ iter + 1 >= cfg.maxIteration

\* the events of a step whose tick callback calls destroy(): destroy returns
\* inside the call of line 269, before the statements that follow it
TickCallsDestroy(events) ==
  LET k == CHOOSE m \in 1..Len(events) : events[m] = "tick"
  IN SubSeq(events, 1, k) \o <<"destroy">> \o SubSeq(events, k + 1, Len(events))

\* one firing of interval timer t (lines 246-288); each \E binds the value of
\* one statement of the callback; tickDestroys: the tick callback of line 269
\* calls destroy() on the instance (lines 441-448)
Step(t) ==
  /\ t \in ActiveTimers
  /\ \E iter \in {timers[t].iter} :
     \E acc1 \in {calRepulsive(gcfg, nodeSize, gnodes, gedges)} :
     \E acc2 \in {IF edgesNull THEN acc1 ELSE calAttractive(acc1, gnodes, gedges)} :
     \E acc3 \in {calGravity(gcfg, acc2, gnodes)} :
     \E stepInterval \in {StepInterval(gcfg, iter)} :
     \E velArray \in {updateVelocity(gcfg, acc3, stepInterval, gnodes)} :
     \E moved \in {updatePosition(velArray, stepInterval, gnodes)} :
     \E tickDestroys \in (IF gtick /\ ~gdestroyed THEN BOOLEAN ELSE {FALSE}) :
     \E movement \in {Movement(gnodes, moved)} :
     \E ticked \in {[timers EXCEPT ![t].iter = iter + 1]} :
     \E afterTick \in {IF tickDestroys /\ timeInterval # 0
                          THEN clearInterval(ticked, timeInterval) ELSE ticked} :
     \E events \in {StepEvents(gcfg, gtick, movement, iter)} :
       /\ gnodes' = moved
       /\ gtick' = (gtick /\ ~tickDestroys)
       /\ nodesNull' = (nodesNull \/ tickDestroys)
       /\ edgesNull' = (edgesNull \/ tickDestroys)
       /\ gdestroyed' = (gdestroyed \/ tickDestroys)
       /\ endCalls' = endCalls + StepEndCalls(gcfg, movement, iter)
       /\ timers' = IF StepStops(gcfg, movement, iter)
                      THEN clearInterval(afterTick, timeInterval) ELSE afterTick
       /\ ghist' = [op |-> "step", midRun |-> TRUE, prevTimer |-> timeInterval,
                    prevIter |-> iter, moved |-> movement,
                    events |-> IF tickDestroys THEN TickCallsDestroy(events) ELSE events]
  /\ UNCHANGED <<gedges, gcfg, nodeSize, timeInterval, execCount>>
  /\ UNCHANGED <<fvars, cvars>>

StopTimersKeepsTimer == timers

\* stop()
StopTimers == IF timeInterval # 0 THEN clearInterval(timers, timeInterval) ELSE timers

StopG ==
  /\ ~gdestroyed
  /\ timers' = StopTimers
  /\ ghist' = [op |-> "stop", midRun |-> timeInterval \in ActiveTimers,
               prevTimer |-> timeInterval,
               prevIter |-> IF timeInterval = 0 THEN 0 ELSE timers[timeInterval].iter,
               moved |-> 0, events |-> <<>>]
  /\ UNCHANGED <<gnodes, gedges, nodesNull, edgesNull, gdestroyed, gtick, gcfg, nodeSize,
                 timeInterval, endCalls, execCount>>
  /\ UNCHANGED <<fvars, cvars>>

\* destroy()
DestroyG ==
  /\ ~gdestroyed
  /\ timers' = StopTimers
  /\ gtick' = FALSE
  /\ nodesNull' = TRUE
  /\ edgesNull' = TRUE
  /\ gdestroyed' = TRUE
  /\ ghist' = [op |-> "destroy", midRun |-> timeInterval \in ActiveTimers,
               prevTimer |-> timeInterval,
               prevIter |-> IF timeInterval = 0 THEN 0 ELSE timers[timeInterval].iter,
               moved |-> 0, events |-> <<>>]
  /\ UNCHANGED <<gnodes, gedges, gcfg, nodeSize, timeInterval, endCalls, execCount>>
  /\ UNCHANGED <<fvars, cvars>>

\* init(data) with data that holds no nodes: self.nodes is rebound, the
\* closure of a scheduled timer keeps the array it was started on
InitNoNodesG ==
  /\ ~gdestroyed
  /\ ~nodesNull
  /\ nodesNull' = TRUE
  /\ ghist' = [op |-> "init", midRun |-> timeInterval \in ActiveTimers,
               prevTimer |-> timeInterval,
               prevIter |-> IF timeInterval = 0 THEN 0 ELSE timers[timeInterval].iter,
               moved |-> 0, events |-> <<>>]
  /\ UNCHANGED <<gnodes, gedges, edgesNull, gdestroyed, gtick, gcfg, nodeSize, timeInterval,
                 timers, endCalls, execCount>>
  /\ UNCHANGED <<fvars, cvars>>

InitStateG ==
  /\ gnodes \in NodeArrays
  /\ gedges \in EdgeLists(Len(gnodes))
  /\ nodesNull = FALSE
  /\ edgesNull = FALSE
  /\ gdestroyed = FALSE
  /\ gtick = TRUE
  /\ gcfg \in GCfgs
  /\ nodeSize = "undefined"
  /\ timeInterval = 0
  /\ timers = <<>>
  /\ endCalls = 0
  /\ execCount = 0
  /\ ghist = [op |-> "new", midRun |-> FALSE, prevTimer |-> 0, prevIter |-> 0, moved |-> 0, events |-> <<>>]
  /\ NewF
  /\ inWorker = FALSE
  /\ IdleC

NextG ==
  \/ ExecuteG
  \/ \E t \in 1..MaxExec : Step(t)
  \/ StopG
  \/ DestroyG

SpecG == InitStateG /\ [][NextG]_vars

\* ===========================================================================
\* CircularLayout
\* ===========================================================================
\* Lengths are fixed-point in units of 0.01 (Unit), angles count steps of
\* 3 degrees (Turn), cosines and sines are scaled by TrigScale.

\* nodes of a graph payload of the circular layout
MaxCNodes == 4

TrigScale == 10000

\* Math.cos at 0, 3, ..., 90 degrees
CosQuarter ==
  <<10000, 9986, 9945, 9877, 9781, 9659, 9511, 9336, 9135, 8910, 8660, 8387, 8090, 7771,
    7431, 7071, 6691, 6293, 5878, 5446, 5000, 4540, 4067, 3584, 3090, 2588, 2079, 1564,
    1045, 523, 0>>

\* Math.cos of an angle
Cos(a) ==
  LET m == a % Turn
      q == Turn \div 4
  IN IF m <= q THEN CosQuarter[m + 1]
     ELSE IF m <= 2 * q THEN -CosQuarter[2 * q - m + 1]
     ELSE IF m <= 3 * q THEN -CosQuarter[m - 2 * q + 1]
     ELSE CosQuarter[Turn - m + 1]

\* Math.sin of an angle
Sin(a) == Cos(a - Turn \div 4)

\* !v for a number option: null and 0 are both falsy
Falsy(v) == v = Null \/ v = 0

\* smallest element of a non-empty set of numbers
MinOf(S) == CHOOSE x \in S : \A y \in S : x <= y

\* radius, startRadius and endRadius after lines 205-211
ResolveRadius(cfg) ==
  LET own == [radius |-> cfg.radius, startRadius |-> cfg.startRadius,
              endRadius |-> cfg.endRadius]
  IN IF Falsy(cfg.radius) /\ Falsy(cfg.startRadius) /\ Falsy(cfg.endRadius)
       THEN [own EXCEPT !.radius = IF height > width THEN Div(width, 2) ELSE Div(height, 2)]
     ELSE IF Falsy(cfg.startRadius) /\ ~Falsy(cfg.endRadius)
       THEN [own EXCEPT !.startRadius = cfg.endRadius]
     ELSE IF ~Falsy(cfg.startRadius) /\ Falsy(cfg.endRadius)
       THEN [own EXCEPT !.endRadius = cfg.startRadius]
     ELSE own

\* r of the node at placement index i (from 0) of n (lines 234-240)
RadiusAt(res, i, n) ==
  LET r == IF Falsy(res.radius) /\ res.startRadius # Null /\ res.endRadius # Null
             THEN res.startRadius + Div(i * (res.endRadius - res.startRadius), n - 1)
             ELSE res.radius
  IN IF Falsy(r) THEN 10 * Unit + Div(i * 100 * Unit, n - 1) ELSE r

AngleAtInclusiveSpan(cfg, i, n) ==
  LET angleStep == Div(cfg.endAngle - cfg.startAngle, n - 1)
      astep == angleStep * cfg.angleRatio
      divN == (n + cfg.divisions - 1) \div cfg.divisions
      band == Div(Turn, cfg.divisions) * (i \div divN)
  IN IF cfg.clockwise
       THEN cfg.startAngle + (i % divN) * astep + band
       ELSE cfg.endAngle - (i % divN) * astep - band

\* angle of the node at placement index i (from 0) of n (lines 196, 213, 232, 241-250)
AngleAt(cfg, i, n) ==
  LET angleStep == Div(cfg.endAngle - cfg.startAngle, n)
      astep == angleStep * cfg.angleRatio
      divN == (n + cfg.divisions - 1) \div cfg.divisions
      band == Div(Turn, cfg.divisions) * (i \div divN)
  IN IF cfg.clockwise
       THEN cfg.startAngle + (i % divN) * astep + band
       ELSE cfg.endAngle - (i % divN) * astep - band

compareDegreeDescending(a, b) ==
  IF a.degree > b.degree THEN -1 ELSE IF a.degree < b.degree THEN 1 ELSE 0

compareDegree(a, b) ==
  IF a.degree < b.degree THEN -1 ELSE IF a.degree > b.degree THEN 1 ELSE 0

\* Array.prototype.sort(compareDegree) on the first k nodes, as the order of
\* their indices; the sort is stable: an element goes behind every element
\* the comparator does not put after it
RECURSIVE sort(_, _)
sort(nodes, k) ==
  IF k = 0 THEN <<>>
  ELSE LET sorted == sort(nodes, k - 1)
           pos == Cardinality({m \in 1..Len(sorted) :
                                 compareDegree(nodes[sorted[m]], nodes[k]) <= 0})
       IN SubSeq(sorted, 1, pos) \o <<k>> \o SubSeq(sorted, pos + 1, Len(sorted))

\* the nodes after the forEach of degreeOrdering (lines 339-342)
WithDegree(nodes, degrees) ==
  [v \in 1..Len(nodes) |-> [nodes[v] EXCEPT !.degree = degrees[v]]]

\* degreeOrdering(): the order of the node indices it returns
degreeOrdering(nodes, degrees) == sort(WithDegree(nodes, degrees), Len(nodes))

\* connect(a, b, edges)
connect(a, b, edges) ==
  \E k \in 1..Len(edges) : edges[k] = <<a, b>> \/ edges[k] = <<b, a>>

\* initHierarchy: the children list of node v after the first m edges
RECURSIVE childrenOf(_, _, _, _)
childrenOf(edges, m, v, directed) ==
  IF m = 0 THEN <<>>
  ELSE childrenOf(edges, m - 1, v, directed)
         \o (IF edges[m][1] = v THEN <<edges[m][2]>> ELSE <<>>)
         \o (IF ~directed /\ edges[m][2] = v THEN <<edges[m][1]>> ELSE <<>>)

topologyAcceptsPicked(st, i, n, edges, degrees) ==
  i = n \/ degrees[i] # degrees[i + 1] \/ connect(st.res[st.k], i, edges)

\* the condition under which the forEach callback appends node i itself
\* (lines 284-293)
topologyAccepts(st, i, n, edges, degrees) ==
  /\ (i = n \/ degrees[i] # degrees[i + 1] \/ connect(st.res[st.k], i, edges))
  /\ i \notin st.picked

\* one call of the forEach callback of topologyOrdering, for node i > 1
\* (lines 283-325); st holds resNodes, the pick flags and k
topologyStep(st, i, n, edges, degrees, directed) ==
  LET cur == st.res[st.k]
      accept == topologyAccepts(st, i, n, edges, degrees)
      children == childrenOf(edges, Len(edges), cur, directed)
      cand == {j \in 1..Len(children) :
                 degrees[children[j]] = degrees[i] /\ children[j] \notin st.picked}
      unpicked == (1..n) \ st.picked
  IN IF accept
       THEN [res |-> Append(st.res, i), picked |-> st.picked \cup {i}, k |-> st.k + 1]
     ELSE IF cand # {}
       THEN [res |-> Append(st.res, children[MinOf(cand)]),
             picked |-> st.picked \cup {children[MinOf(cand)]}, k |-> st.k]
     ELSE IF unpicked # {}
       THEN [res |-> Append(st.res, MinOf(unpicked)),
             picked |-> st.picked \cup {MinOf(unpicked)}, k |-> st.k]
     ELSE st

\* resNodes, pick flags and k once the forEach has passed node i
RECURSIVE topologyState(_, _, _, _, _)
topologyState(i, n, edges, degrees, directed) ==
  IF i = 1 THEN [res |-> <<1>>, picked |-> {1}, k |-> 1]
  ELSE CHOOSE next \in {topologyStep(st, i, n, edges, degrees, directed) :
                          st \in {topologyState(i - 1, n, edges, degrees, directed)}} : TRUE

\* topologyOrdering(directed): the order of the node indices it returns
topologyOrdering(nodes, edges, degrees, directed) ==
  topologyState(Len(nodes), Len(nodes), edges, degrees, directed).res

\* layoutNodes (lines 215-229), as the order of the node indices
LayoutOrder(cfg, nodes, edges, degrees) ==
  IF cfg.ordering = "topology" THEN topologyOrdering(nodes, edges, degrees, FALSE)
  ELSE IF cfg.ordering = "topology-directed" THEN topologyOrdering(nodes, edges, degrees, TRUE)
  ELSE IF cfg.ordering = "degree" THEN degreeOrdering(nodes, degrees)
  ELSE [v \in 1..Len(nodes) |-> v]

\* the nodes after the placement loop (lines 233-254): the node at placement
\* index i of the order gets its position and weight = degrees[i]
Place(nodes, order, degrees, angles, radii, c) ==
  [v \in 1..Len(nodes) |->
     LET at == {p \in 1..Len(order) : order[p] = v}
     IN IF at = {} THEN nodes[v]
        ELSE LET p == CHOOSE q \in at : \A o \in at : o <= q
             IN [nodes[v] EXCEPT
                   !.x = c[1] + Div(Cos(angles[p]) * radii[p], TrigScale),
                   !.y = c[2] + Div(Sin(angles[p]) * radii[p], TrigScale),
                   !.weight = degrees[p]]]

PlaceSingleSwapped(nodes, c) ==
  [nodes EXCEPT ![1].x = c[2], ![1].y = c[1]]

\* the nodes after the single node has been placed (lines 183-185)
PlaceSingle(nodes, c) ==
  [nodes EXCEPT ![1].x = c[1], ![1].y = c[2]]

\* ---- inputs ---------------------------------------------------------------

\* the v-th node record as bound: no position, weight or degree yet
FreshNode(v) == [id |-> v, x |-> 0, y |-> 0, weight |-> Null, degree |-> Null]

\* edge lists over n nodes: none, a star around the first node, a path, or
\* edges between every node and the next but one
EdgeListsC(n) ==
  EdgeLists(n)
    \cup (IF n >= 2 THEN {[k \in 1..(n - 1) |-> <<k, k + 1>>]} ELSE {})
    \cup (IF n >= 3 THEN {[k \in 1..(n - 2) |-> <<k, k + 2>>]} ELSE {})

Orderings == {"null", "degree", "topology", "topology-directed"}

\* options that vary the radius rule and the ordering
RadiusCfgs ==
  {[DefaultCfgC EXCEPT !.radius = r, !.startRadius = s, !.endRadius = e, !.ordering = o] :
     r \in {Null, 0, 5000}, s \in {Null, 0, 2000}, e \in {Null, 0, 8000}, o \in Orderings}

\* options that vary the angular schedule
AngleCfgs ==
  {[DefaultCfgC EXCEPT !.startAngle = a, !.endAngle = b, !.clockwise = cw,
                       !.divisions = d, !.angleRatio = ar] :
     a \in {0, Turn \div 2}, b \in {Turn \div 2, Turn}, cw \in BOOLEAN,
     d \in {1, 2}, ar \in {1, 2}}

CfgsC == RadiusCfgs \cup AngleCfgs

\* configured centers: none, or (100, 200)
Centers == {<<>>, <<10000, 20000>>}

\* ---- operations -----------------------------------------------------------

\* execute()
ExecuteC ==
  \E n \in {Len(cnodes)} :
    IF n = 0
      THEN /\ chist' = [op |-> "execute", endCalls |-> 1, order |-> <<>>, angles |-> <<>>,
                        radii |-> <<>>, degrees |-> <<>>]
           /\ UNCHANGED <<cnodes, cedges, ccfg, ccenter, fvars, gvars>>
      ELSE \E c \in {IF ccenter = <<>> THEN <<Div(width, 2), Div(height, 2)>> ELSE ccenter} :
        /\ ccenter' = c
        /\ IF n = 1
             THEN /\ cnodes' = PlaceSingle(cnodes, c)
                  /\ chist' = [op |-> "execute", endCalls |-> 1, order |-> <<>>,
                               angles |-> <<>>, radii |-> <<>>, degrees |-> <<>>]
             ELSE \E degrees \in {getDegree(n, cedges)} :
                  \E res \in {ResolveRadius(ccfg)} :
                  \E order \in {LayoutOrder(ccfg, cnodes, cedges, degrees)} :
                  \E angles \in {[p \in 1..n |-> AngleAt(ccfg, p - 1, n)]} :
                  \E radii \in {[p \in 1..n |-> RadiusAt(res, p - 1, n)]} :
                  \E ordered \in {IF ccfg.ordering = "degree"
                                    THEN WithDegree(cnodes, degrees) ELSE cnodes} :
                    /\ cnodes' = Place(ordered, order, degrees, angles, radii, c)
                    /\ chist' = [op |-> "execute", endCalls |-> 1, order |-> order,
                                 angles |-> angles, radii |-> radii, degrees |-> degrees]
        /\ UNCHANGED <<cedges, ccfg, fvars, gvars>>

\* the instance with a graph bound and options set
InitStateC ==
  /\ \E n \in 0..MaxCNodes : cnodes = [v \in 1..n |-> FreshNode(v)]
  /\ cedges \in EdgeListsC(Len(cnodes))
  /\ ccfg \in CfgsC
  /\ ccenter \in Centers
  /\ chist = [op |-> "new", endCalls |-> 0, order |-> <<>>, angles |-> <<>>,
              radii |-> <<>>, degrees |-> <<>>]
  /\ NewF
  /\ inWorker = FALSE
  /\ IdleG

NextC == ExecuteC

SpecC == InitStateC /\ [][NextC]_vars

\* a GForceLayout instance on a graph of at most two nodes, which init may
\* rebind to data without nodes, next to a CircularLayout instance that has
\* no graph bound
InitStateE == InitStateG /\ Len(gnodes) <= 2

NextE == NextG \/ InitNoNodesG \/ NextC

SpecE == InitStateE /\ [][NextE]_vars

\* ===========================================================================
\* Claims about ForceLayout
\* ===========================================================================

\* C4: at most one simulation created by the instance is active at any time,
\* and a simulation the instance does not reference (any more) is stopped.
C4_AtMostOneActiveSimulation ==
  /\ Cardinality(ActiveSims) <= 1
  /\ \A s \in ActiveSims : s = forceSimulation

\* C6: right after updateCfg has returned the engine is idle, the simulation
\* reference is dropped, and the simulation referenced on entry is stopped, so
\* none of its steps can run any more.
C6_UpdateCfgStopsOldSimulation ==
  fhist.op = "updateCfg" =>
    /\ ~ticking
    /\ forceSimulation = 0
    /\ (fhist.prevSim # 0 => fhist.prevSim \notin ActiveSims)

\* C7: execute(reloadData) entered with ticking = true changes neither ticking,
\* forceSimulation, the simulations (forces, alpha, timer) nor the bound
\* nodes/edges, for either value of reloadData.
C7_ExecuteWhileTickingIsNoOp ==
  [][(fhist'.op = "execute" /\ ticking)
       => UNCHANGED <<ticking, forceSimulation, sims, fnodes, fedges>>]_vars

\* C7 witness: an execute() call that found a started, partly decayed
\* simulation with ticking = true has returned.
C7_Witness ==
  /\ fhist.op = "execute"
  /\ fhist.wasTicking
  /\ forceSimulation \in ActiveSims
  /\ sims[forceSimulation].alpha < TotalTicks

\* C11: an execute() whose build of the simulation threw has returned with
\* ticking = false, and no simulation created during that call is active.
C11_FailedBuildLeavesNothingRunning ==
  [][(fhist'.op = "execute" /\ fhist'.fault # "none")
       => /\ ~ticking'
          /\ \A s \in 1..Len(sims') : s > Len(sims) => ~sims'[s].active]_vars

\* C12: in offloaded mode (workerEnabled inside a worker) an execute() that is
\* not ignored has run its simulation to completion when it returns and has
\* posted exactly totalTicks tick messages numbered 1, 2, ..., totalTicks; no
\* simulation step invokes the tick callback in this mode.
C12_WorkerModePostsEveryTick ==
  (workerEnabled /\ inWorker) =>
    /\ (fhist.op = "execute" /\ ~fhist.wasTicking /\ fhist.fault = "none") =>
         /\ forceSimulation \notin ActiveSims
         /\ Len(posted) = TotalTicks
         /\ \A k \in 1..Len(posted) :
              /\ posted[k].type = "tick"
              /\ posted[k].currentTick = k
              /\ posted[k].totalTicks = TotalTicks
    /\ (fhist.op = "tick" => ~fhist.callback)

\* ===========================================================================
\* Claims about GForceLayout
\* ===========================================================================

\* distance between nodes i and j
Dist(nodes, i, j) == Hypot(nodes[i].x - nodes[j].x, nodes[i].y - nodes[j].y)

\* C1: in a run on at least 2 nodes onLayoutEnd is invoked exactly once, in the
\* step that cancels the timer (convergence, iteration cap, or both at once),
\* and not before.
C1_EndOfLayoutExactlyOnce ==
  (Len(gnodes) >= 2 /\ timeInterval # 0) =>
    /\ endCalls <= 1
    /\ (ghist.op = "step" => (endCalls = 1 <=> timeInterval \notin ActiveTimers))

\* C2: an execute() that finds a simulation mid-run changes nothing: the same
\* timer stays scheduled and its iteration counter is the one found.
C2_ReentrantExecuteChangesNothing ==
  (ghist.op = "execute" /\ ghist.midRun) =>
    /\ timeInterval = ghist.prevTimer
    /\ timeInterval \in ActiveTimers
    /\ timers[timeInterval].iter = ghist.prevIter

\* C3: once execute() has run, after any number of steps, every node with fx
\* and fy set is at (fx, fy), for every graph size.
C3_PinnedNodeAtPin ==
  execCount > 0 =>
    \A k \in 1..Len(gnodes) :
      IsPinned(gnodes[k]) => (gnodes[k].x = gnodes[k].fx /\ gnodes[k].y = gnodes[k].fy)

\* C5: once destroy() has returned no simulation (ForceLayout) and no interval
\* timer (GForceLayout) of the instance is active, nodes and edges are null
\* and destroyed is true.
C5_DestroyStopsAndReleases ==
  /\ fdestroyed => (ActiveSims = {} /\ fnodes = "null" /\ fedges = "null")
  /\ gdestroyed => (ActiveTimers = {} /\ nodesNull /\ edgesNull)

\* C8: a run executes at most maxIteration steps; a timer whose run has
\* executed maxIteration steps is cancelled, so no further step runs.
C8_AtMostMaxIterationSteps ==
  \A t \in 1..Len(timers) :
    /\ timers[t].iter <= gcfg.maxIteration
    /\ (timers[t].active => timers[t].iter < gcfg.maxIteration)

\* C8 witness: a run on a graph that did not converge was cancelled by its
\* maxIteration-th step.
C8_Witness ==
  /\ ghist.op = "step"
  /\ gcfg.maxIteration = MaxIteration
  /\ ghist.moved >= minMovement
  /\ timeInterval # 0
  /\ ~timers[timeInterval].active
  /\ timers[timeInterval].iter = gcfg.maxIteration

\* C9: with preventOverlap, two unpinned nodes of non-zero size at distance 0
\* are at a larger distance after the next step.
C9_CoincidentNodesSeparate ==
  [][(ghist'.op = "step" /\ gcfg.preventOverlap /\ nodeSize = "resolved")
       => \A i, j \in 1..Len(gnodes) :
            (/\ i < j
             /\ ~IsPinned(gnodes[i]) /\ ~IsPinned(gnodes[j])
             /\ gnodes[i].size # 0 /\ gnodes[j].size # 0
             /\ Dist(gnodes, i, j) = 0)
              => Dist(gnodes', i, j) > Dist(gnodes, i, j)]_vars

\* C10: for every pair i < j what calRepulsive adds to the accumulator of i is
\* the negation of what it adds to the accumulator of j, in x and in y.
C10_RepulsionAntisymmetric ==
  (timeInterval # 0 /\ Len(gnodes) >= 2) =>
    \A i, j \in 1..Len(gnodes) :
      i < j =>
        LET p == PairRepulsive(gcfg, nodeSize, gnodes, gedges, i, j)
        IN p.ix = -p.jx /\ p.iy = -p.jy

\* positions of event e in the event list of a step
EventIndices(events, e) == {k \in 1..Len(events) : events[k] = e}

C20_StopCancelsPendingStep ==
  [][/\ (ghist'.op = "stop") =>
          /\ ActiveTimers' = {}
          /\ UNCHANGED <<gnodes, gedges, nodesNull, edgesNull, gcfg, gtick, nodeSize, endCalls>>
     /\ (ActiveTimers = {} /\ ghist'.op # "execute") =>
          /\ ActiveTimers' = {}
          /\ ghist'.op # "step"
          /\ UNCHANGED <<gnodes, endCalls>>]_vars

\* C20 witness: stop() was called between two steps of a running simulation.
C20_Witness ==
  /\ ghist.op = "stop"
  /\ ghist.midRun
  /\ ghist.prevIter > 0
  /\ ghist.prevIter < gcfg.maxIteration

\* ===========================================================================
\* Claims about CircularLayout
\* ===========================================================================

\* C13: an execute() that finds no nodes bound ends at once. GForceLayout:
\* onLayoutEnd is called once, no position is written, the timer of an
\* earlier run is cancelled and no timer is created. CircularLayout:
\* onLayoutEnd is called once and nothing is placed.
C13_NoNodesCompletesAtOnce ==
  [][/\ (execCount' # execCount /\ (nodesNull \/ Len(gnodes) = 0)) =>
          /\ endCalls' = 1
          /\ ghist'.events = <<"end">>
          /\ gnodes' = gnodes
          /\ ActiveTimers' = {}
          /\ Len(timers') = Len(timers)
     /\ (chist'.op = "execute" /\ Len(cnodes) = 0) =>
          /\ chist'.endCalls = 1
          /\ chist'.order = <<>>
          /\ UNCHANGED <<cnodes, ccenter>>]_vars

\* C13 witness: GForceLayout.execute() found no nodes while the timer of an
\* earlier run was still scheduled, and CircularLayout.execute() has run with
\* no nodes bound.
C13_Witness ==
  /\ ghist.op = "execute"
  /\ ghist.midRun
  /\ nodesNull
  /\ endCalls = 1
  /\ chist.op = "execute"
  /\ Len(cnodes) = 0

\* C14: after execute() on a graph of exactly one node the node is at the
\* center of the instance, whatever the radius, angle, ordering and divisions
\* options are, and onLayoutEnd was called once.
C14_SingleNodeAtCenter ==
  (chist.op = "execute" /\ Len(cnodes) = 1) =>
    /\ cnodes[1].x = ccenter[1]
    /\ cnodes[1].y = ccenter[2]
    /\ chist.endCalls = 1

\* C14 witness: a single node laid out with a configured center, a start and
\* end radius and ordering by degree.
C14_Witness ==
  /\ chist.op = "execute"
  /\ Len(cnodes) = 1
  /\ ccenter = <<10000, 20000>>
  /\ cnodes[1].x = 10000
  /\ cnodes[1].y = 20000
  /\ ccfg.ordering = "degree"
  /\ ccfg.startRadius = 2000
  /\ ccfg.endRadius = 8000

\* C15: after the layout of n >= 2 nodes the weight of every node is the
\* node's own degree, for every ordering option.
C15_WeightIsOwnDegree ==
  (chist.op = "execute" /\ Len(cnodes) >= 2) =>
    \A v \in 1..Len(cnodes) : cnodes[v].weight = getDegree(Len(cnodes), cedges)[v]

C17_EvenAngularSpacing ==
  (/\ chist.op = "execute" /\ Len(cnodes) >= 2
   /\ ccfg.divisions = 1 /\ ccfg.clockwise /\ ccfg.angleRatio = 1
   /\ ccfg.startAngle = 0 /\ ccfg.endAngle = Turn) =>
    LET n == Len(cnodes)
        o == chist.order
    IN /\ \A p \in 1..n :
            /\ chist.angles[p] * n = (p - 1) * Turn
            /\ cnodes[o[p]].x = ccenter[1] + Div(Cos(chist.angles[p]) * chist.radii[p], TrigScale)
            /\ cnodes[o[p]].y = ccenter[2] + Div(Sin(chist.angles[p]) * chist.radii[p], TrigScale)
       /\ \A p \in 1..(n - 1) : (chist.angles[p + 1] - chist.angles[p]) * n = Turn
       /\ \A p, q \in 1..n : p # q => chist.angles[p] % Turn # chist.angles[q] % Turn

\* C17 witness: four nodes, no edges, default options, center (100, 200):
\* the nodes are at 0, 90, 180 and 270 degrees at radius 150.
C17_Witness ==
  /\ chist.op = "execute"
  /\ Len(cnodes) = 4
  /\ cedges = <<>>
  /\ ccfg = DefaultCfgC
  /\ ccenter = <<10000, 20000>>
  /\ <<cnodes[1].x, cnodes[1].y>> = <<25000, 20000>>
  /\ <<cnodes[2].x, cnodes[2].y>> = <<10000, 35000>>
  /\ <<cnodes[3].x, cnodes[3].y>> = <<-5000, 20000>>
  /\ <<cnodes[4].x, cnodes[4].y>> = <<10000, 5000>>

\* C18: for n >= 2 nodes, without a fixed radius and with startRadius and
\* endRadius both given (0 included), the node at placement index i gets the
\* radius startRadius + i * (endRadius - startRadius) / (n - 1); a given fixed
\* radius is the radius of every node.
C18_RadiusInterpolation ==
  (chist.op = "execute" /\ Len(cnodes) >= 2) =>
    LET n == Len(cnodes) IN
    /\ (ccfg.radius = Null /\ ccfg.startRadius # Null /\ ccfg.endRadius # Null) =>
         \A p \in 1..n :
           chist.radii[p] * (n - 1)
             = ccfg.startRadius * (n - 1) + (p - 1) * (ccfg.endRadius - ccfg.startRadius)
    /\ (ccfg.radius # Null) => \A p \in 1..n : chist.radii[p] = ccfg.radius

\* ===========================================================================
\* Further claims about GForceLayout
\* ===========================================================================

\* C21: at most one interval timer of the instance is active, it is the one
\* self.timeInterval names, and every step belongs to it: steps of two
\* execute() runs never interleave.
C21_AtMostOneActiveTimer ==
  /\ Cardinality(ActiveTimers) <= 1
  /\ ActiveTimers \subseteq {timeInterval}
  /\ (ghist.op = "step" => ghist.prevTimer = timeInterval)

\* C21 witness: a second execute() replaced the timer of a run in progress,
\* and the new run has taken a step.
C21_Witness ==
  /\ Len(timers) = 2
  /\ ~timers[1].active
  /\ timers[1].iter > 0
  /\ timers[1].iter < gcfg.maxIteration
  /\ timers[2].active
  /\ timers[2].iter > 0
  /\ ghist.op = "step"

\* the accumulated accelerations a step hands to updateVelocity (lines 256-258)
Acceleration(cfg, sizeState, nodes, edges, noEdges) ==
  LET acc1 == calRepulsive(cfg, sizeState, nodes, edges)
      acc2 == IF noEdges THEN acc1 ELSE calAttractive(acc1, nodes, edges)
  IN calGravity(cfg, acc2, nodes)

\* C22: in every step the velocity of a node is its accumulated acceleration
\* times (step size * damping), zero acceleration included, rescaled to
\* maxSpeed only if its length exceeds maxSpeed; a node that is not pinned
\* moves by exactly that velocity times the step size.
C22_VelocityIsScaledAcceleration ==
  [][ghist'.op = "step" =>
       \A stepInterval \in {StepInterval(gcfg, ghist'.prevIter)} :
       \A acc \in {Acceleration(gcfg, nodeSize, gnodes, gedges, edgesNull)} :
       \A k \in 1..Len(gnodes) :
         ~IsPinned(gnodes[k]) =>
           LET param == Div(stepInterval * damping, Unit)
               vx == Div(acc[k][1] * param, 1000)
               vy == Div(acc[k][2] * param, 1000)
               vLength == Hypot(vx, vy)
               wx == IF vLength > gcfg.maxSpeed THEN Div(vx * gcfg.maxSpeed, vLength) ELSE vx
               wy == IF vLength > gcfg.maxSpeed THEN Div(vy * gcfg.maxSpeed, vLength) ELSE vy
           IN /\ gnodes'[k].x = gnodes[k].x + Div(wx * stepInterval, 1000)
              /\ gnodes'[k].y = gnodes[k].y + Div(wy * stepInterval, 1000)]_vars

\* C25: an execute() that starts a run on at least two nodes while no run is
\* in progress (none yet, or the previous one ended or was stopped) leaves the
\* instance with the per-node overlap size the first execute() resolved from
\* the options, whether it is the first or a later execute(), so the overlap
\* test of calRepulsive decides every pair of nodes as in the first run.
C25_ExecuteResolvesSameNodeSize ==
  (ghist.op = "execute" /\ ~ghist.midRun /\ Len(gnodes) >= 2
     /\ ~NoNodes(nodesNull, gnodes)) =>
    /\ \A k \in 1..Len(gnodes) :
         nodeSizeFunc(nodeSize, gnodes[k])
           = nodeSizeFunc(ResolveNodeSize(gcfg, "undefined"), gnodes[k])
    /\ \A i, j \in 1..Len(gnodes) :
       \A vecLength \in {Dist(gnodes, i, j) + 1} :
         Overlapping(gcfg, nodeSize, gnodes[i], gnodes[j], vecLength)
           <=> Overlapping(gcfg, ResolveNodeSize(gcfg, "undefined"), gnodes[i], gnodes[j],
                           vecLength)

\* C26: nothing happens after destroy() has returned: in a step whose tick
\* callback called destroy() no position is written, tick is not called and
\* onLayoutEnd is not called after that call, and once the instance is
\* destroyed no step runs, no position changes and onLayoutEnd is not called.
C26_NothingAfterDestroy ==
  [][/\ \A k \in EventIndices(ghist'.events, "destroy") :
          \A m \in (k + 1)..Len(ghist'.events) :
            ghist'.events[m] \notin {"position", "tick", "end"}
     /\ gdestroyed => (ghist'.op # "step" /\ UNCHANGED <<gnodes, endCalls>>)]_vars

\* ===========================================================================
\* Further claims about CircularLayout
\* ===========================================================================

\* C23: for a bound graph of n >= 1 nodes topologyOrdering, directed or not,
\* has placed exactly i distinct nodes once its forEach has passed node i,
\* node 0 first, so each iteration appends exactly one node that was not
\* placed yet and the result is a permutation of the n nodes; an execute()
\* with a topology ordering lays the nodes out in that order.
C23_TopologyOrderingIsPermutation ==
  \A n \in {Len(cnodes)} :
    n >= 1 =>
      \A degrees \in {getDegree(n, cedges)} :
        /\ \A directed \in BOOLEAN :
           \A i \in 1..n :
           \A st \in {topologyState(i, n, cedges, degrees, directed)} :
             /\ Len(st.res) = i
             /\ st.res[1] = 1
             /\ \A p \in 1..i : st.res[p] \in 1..n
             /\ \A p, q \in 1..i : st.res[p] = st.res[q] => p = q
             /\ st.picked = {st.res[p] : p \in 1..i}
             /\ (i > 1 =>
                  \A prev \in {topologyState(i - 1, n, cedges, degrees, directed)} :
                    /\ SubSeq(st.res, 1, i - 1) = prev.res
                    /\ st.res[i] \notin prev.picked)
        /\ (chist.op = "execute" /\ n >= 2
              /\ ccfg.ordering \in {"topology", "topology-directed"}) =>
             /\ chist.order = topologyOrdering(cnodes, cedges, degrees,
                                               ccfg.ordering = "topology-directed")
             /\ {chist.order[p] : p \in 1..Len(chist.order)} = 1..n
             /\ Len(chist.order) = n

\* C23 witness: an execute() with a topology ordering has laid out four nodes
\* in an order that differs from the bound order, so an iteration appended a
\* node other than its own.
C23_Witness ==
  /\ chist.op = "execute"
  /\ ccfg.ordering \in {"topology", "topology-directed"}
  /\ Len(cnodes) = 4
  /\ Len(chist.order) = 4
  /\ chist.order[2] # 2

\* ===========================================================================
\* Further claims about ForceLayout
\* ===========================================================================

\* C24: the running flag is true exactly when the simulation the instance
\* references is active: ticking is false once an offloaded execute() has run
\* all its ticks, and it is not false while the simulation the instance
\* started before an init() rebind is still ticking.
C24_TickingIffSimulationActive ==
  ticking <=> (forceSimulation # 0 /\ forceSimulation \in ActiveSims)

====
